---- MODULE Spec2Model ----
(***************************************************************************)
(* Model of the math agent's conversation loop (agent.py), its tool        *)
(* dispatcher and response parser, and the tool registry (tools.py).       *)
(*                                                                         *)
(* Text is a sequence of string chunks.  Python values that reach the      *)
(* tools are records [t, i, s]: t is the Python type, i the int value,     *)
(* s the characters of a str value.                                        *)
(***************************************************************************)
EXTENDS Integers, Sequences, FiniteSets, TLC

\* ------------------------------------------------------------------ bounds
\* largest max_steps a caller passes to run_conversation
MaxStepsBound == 5
\* largest number of tool calls in one model reply
MaxCalls == 2

\* ------------------------------------------------------- program constants
\* run_agent's max_steps
DefaultMaxSteps == 5
\* "tools_used and step_count >= 3"
InnerRoundBound == 3
\* "if step_count >= 2" in the query-exception handler
ErrorStepThreshold == 2

\* -------------------------------------------------------------- text model
None == "<None>"

DigitChars == <<"0", "1", "2", "3", "4", "5", "6", "7", "8", "9">>

RECURSIVE Digits(_)
\* decimal digits of a natural number, as str(int) prints them
Digits(n) ==
    IF n < 10 THEN <<DigitChars[n + 1]>>
    ELSE Digits(n \div 10) \o <<DigitChars[(n % 10) + 1]>>

\* str(i) for an int
IntStr(i) == IF i < 0 THEN <<"-">> \o Digits(0 - i) ELSE Digits(i)

\* str.lower() on one chunk of text
Lower(c) ==
    CASE c = "Final Answer" -> "final answer"
      [] c = "FINAL ANSWER" -> "final answer"
      [] c = "\n\nFinal answer: " -> "\n\nfinal answer: "
      [] c = "I encountered an error: " -> "i encountered an error: "
      [] c = "Let me think" -> "let me think"
      [] OTHER -> c

\* the chunks of lowercased text in which the substring "final answer" occurs
MarkerChunks == {"final answer", "\n\nfinal answer: "}

\* "final answer" in content.lower()
HasFinalAnswerMarker(content) ==
    \E k \in 1..Len(content) : Lower(content[k]) \in MarkerChunks

\* sub occurs in text as a contiguous run of chunks
Contains(text, sub) ==
    \E k \in 0..(Len(text) - Len(sub)) :
        \A j \in 1..Len(sub) : text[k + j] = sub[j]

\* ------------------------------------------------------------ Python values
IntVal(n) == [t |-> "int", i |-> n, s |-> <<>>]
StrVal(chars) == [t |-> "str", i |-> 0, s |-> chars]
NoneVal == [t |-> "NoneType", i |-> 0, s |-> <<>>]

\* the outcome of a tool function: its returned dict, or a raised exception
\* with str(e) in err
Return(v, text) == [raised |-> FALSE, result |-> v, explanation |-> text, err |-> <<>>]
Raise(msg) == [raised |-> TRUE, result |-> NoneVal, explanation |-> <<>>, err |-> msg]

\* str(v) inside an f-string
Str(v) ==
    CASE v.t = "int" -> IntStr(v.i)
      [] v.t = "str" -> v.s
      [] OTHER -> <<"None">>

\* repr(v), as str(dict) prints a value
Repr(v) == IF v.t = "str" THEN <<"'">> \o v.s \o <<"'">> ELSE Str(v)

RECURSIVE Repeat(_, _)
\* Python's sequence repetition s * n
Repeat(chars, n) == IF n <= 0 THEN <<>> ELSE chars \o Repeat(chars, n - 1)

UnsupportedOperand(op, a, b) ==
    Raise(<<"unsupported operand type(s) for ", op, ": '", a.t, "' and '", b.t, "'">>)

\* --------------------------------------------------------------- tools.py
\* a decoded JSON document handed to a tool: a dict with the values of
\* args.get("a") and args.get("b") (None when the key is absent or null),
\* or something that is not a dict
Dict(va, vb) == [isdict |-> TRUE, a |-> va, b |-> vb]
NotADict == [isdict |-> FALSE, a |-> NoneVal, b |-> NoneVal]

NoGet == Raise(<<"'int' object has no attribute 'get'">>)

\* a * b
Mul(a, b) ==
    CASE a.t = "int" /\ b.t = "int" -> [raised |-> FALSE, v |-> IntVal(a.i * b.i)]
      [] a.t = "str" /\ b.t = "int" -> [raised |-> FALSE, v |-> StrVal(Repeat(a.s, b.i))]
      [] a.t = "int" /\ b.t = "str" -> [raised |-> FALSE, v |-> StrVal(Repeat(b.s, a.i))]
      [] OTHER -> [raised |-> TRUE, v |-> NoneVal]

\* a + b
Add(a, b) ==
    CASE a.t = "int" /\ b.t = "int" -> [raised |-> FALSE, v |-> IntVal(a.i + b.i)]
      [] a.t = "str" /\ b.t = "str" -> [raised |-> FALSE, v |-> StrVal(a.s \o b.s)]
      [] OTHER -> [raised |-> TRUE, v |-> NoneVal]

\* a - b
Sub(a, b) ==
    CASE a.t = "int" /\ b.t = "int" -> [raised |-> FALSE, v |-> IntVal(a.i - b.i)]
      [] OTHER -> [raised |-> TRUE, v |-> NoneVal]

multiply_numbers(args) ==
    IF ~args.isdict THEN NoGet
    ELSE LET r == Mul(args.a, args.b) IN
         IF r.raised THEN UnsupportedOperand("*", args.a, args.b)
         ELSE Return(r.v, <<"The product of ">> \o Str(args.a) \o <<" and ">>
                           \o Str(args.b) \o <<" is ">> \o Str(r.v))

add_numbers(args) ==
    IF ~args.isdict THEN NoGet
    ELSE LET r == Add(args.a, args.b) IN
         IF r.raised THEN UnsupportedOperand("+", args.a, args.b)
         ELSE Return(r.v, <<"The sum of ">> \o Str(args.a) \o <<" and ">>
                           \o Str(args.b) \o <<" is ">> \o Str(r.v))

subtract_numbers(args) ==
    IF ~args.isdict THEN NoGet
    ELSE LET r == Sub(args.a, args.b) IN
         IF r.raised THEN UnsupportedOperand("-", args.a, args.b)
         ELSE Return(r.v, <<"The result of ">> \o Str(args.a) \o <<" - ">>
                           \o Str(args.b) \o <<" is ">> \o Str(r.v))

\* the keys of the TOOLS dictionary
TOOLS == {"multiply_numbers", "add_numbers", "subtract_numbers"}

\* TOOLS[name]["function"](args)
ToolFunction(name, args) ==
    CASE name = "multiply_numbers" -> multiply_numbers(args)
      [] name = "add_numbers" -> add_numbers(args)
      [] OTHER -> subtract_numbers(args)

\* ------------------------------------------------- agent.py: the dispatcher
\* the "arguments" entry of a tool call: a JSON string (well formed or not)
\* or an already decoded mapping
JsonText(doc) == [form |-> "str", wf |-> TRUE, doc |-> doc]
MalformedJson == [form |-> "str", wf |-> FALSE, doc |-> NotADict]
Mapping(doc) == [form |-> "dict", wf |-> TRUE, doc |-> doc]
\* a "function" entry without the "arguments" key
NoArguments == [form |-> "missing", wf |-> TRUE, doc |-> NotADict]

\* json.dumps(tool_call.args)
json_dumps(doc) == JsonText(doc)

\* json.loads(args_str): the decoded document, or JSONDecodeError
json_loads(text) ==
    IF text.wf THEN [raised |-> FALSE, doc |-> text.doc, err |-> <<>>]
    ELSE [raised |-> TRUE, doc |-> NotADict,
          err |-> <<"Expecting value: line 1 column 1 (char 0)">>]

\* ToolMessage(content=..., name=..., tool_call_id=...)
ToolMessage(content, name, id) ==
    [type |-> "ToolMessage", content |-> content, name |-> name,
     tool_call_id |-> id, tool_calls |-> <<>>]

\* no tool_call_id: a message that is not a ToolMessage, or a tool call dict
\* without the "id" key
NoId == <<>>

\* f"call_{i}"
CallId(i) == <<"call_">> \o IntStr(i)

\* the dict {"id", "type", "function": {"name", "arguments"}} of one tool call
ToolCallDict(id, name, arguments) ==
    [id |-> id, type |-> "function",
     function |-> [name |-> name, arguments |-> arguments]]

\* the alias table without the entry for "add"
NormalizeName_NoAdd(tool_name) ==
    CASE tool_name = "multiply" -> "multiply_numbers"
      [] tool_name = "subtract" -> "subtract_numbers"
      [] OTHER -> tool_name

\* "Fix common tool name mistakes"
NormalizeName(tool_name) ==
    CASE tool_name = "multiply" -> "multiply_numbers"
      [] tool_name = "add" -> "add_numbers"
      [] tool_name = "subtract" -> "subtract_numbers"
      [] OTHER -> tool_name

\* the body of the try block of execute_tool_call: decode the arguments and
\* call the tool function
RunTool(tool_name, arguments) ==
    LET args_str == IF arguments.form = "missing"
                    THEN JsonText(Dict(NoneVal, NoneVal))
                    ELSE arguments
        loaded == IF args_str.form = "str" THEN json_loads(args_str)
                  ELSE [raised |-> FALSE, doc |-> args_str.doc, err |-> <<>>]
    IN IF loaded.raised THEN Raise(loaded.err)
       ELSE ToolFunction(tool_name, loaded.doc)

\* str(tool_result) for the dict a tool function returns
DictStr(r) ==
    <<"{'result': ">> \o Repr(r.result) \o <<", 'explanation': '">>
        \o r.explanation \o <<"'}">>

\* a dispatcher without the try/except around the tool call
execute_tool_call_NoExcept(tool_call) ==
    LET tool_name == NormalizeName(tool_call.function.name)
        tool_call_id == IF tool_call.id = NoId THEN <<"call_", "1">> ELSE tool_call.id
    IN IF tool_name = "" \/ tool_name \notin TOOLS
       THEN [raised |-> FALSE,
             msg |-> ToolMessage(<<"Error: Tool '", tool_name, "' not found.">>,
                                 tool_name, tool_call_id)]
       ELSE LET r == RunTool(tool_name, tool_call.function.arguments) IN
            [raised |-> r.raised,
             msg |-> ToolMessage(DictStr(r), tool_name, tool_call_id)]

\* a dispatcher that does not check that the tool exists
execute_tool_call_NoLookup(tool_call) ==
    LET tool_name == NormalizeName(tool_call.function.name)
        tool_call_id == IF tool_call.id = NoId THEN <<"call_", "1">> ELSE tool_call.id
        r == RunTool(tool_name, tool_call.function.arguments)
    IN IF r.raised
       THEN [raised |-> FALSE,
             msg |-> ToolMessage(<<"Error: ">> \o r.err, tool_name, tool_call_id)]
       ELSE [raised |-> FALSE,
             msg |-> ToolMessage(DictStr(r), tool_name, tool_call_id)]

\* execute_tool_call: the ToolMessage it returns; raised is TRUE when an
\* exception leaves the function instead
execute_tool_call(tool_call) ==
    LET tool_name == NormalizeName(tool_call.function.name)
        tool_call_id == IF tool_call.id = NoId THEN <<"call_", "1">> ELSE tool_call.id
    IN IF tool_name = "" \/ tool_name \notin TOOLS
       THEN [raised |-> FALSE,
             msg |-> ToolMessage(<<"Error: Tool '", tool_name, "' not found.">>,
                                 tool_name, tool_call_id)]
       ELSE LET r == RunTool(tool_name, tool_call.function.arguments) IN
            IF r.raised
            THEN [raised |-> FALSE,
                  msg |-> ToolMessage(<<"Error: ">> \o r.err, tool_name, tool_call_id)]
            ELSE [raised |-> FALSE,
                  msg |-> ToolMessage(DictStr(r), tool_name, tool_call_id)]

\* --------------------------------------------------- agent.py: the messages
HumanMessage(content) ==
    [type |-> "HumanMessage", content |-> content, name |-> None,
     tool_call_id |-> NoId, tool_calls |-> <<>>]

AIMessage(content) ==
    [type |-> "AIMessage", content |-> content, name |-> None,
     tool_call_id |-> NoId, tool_calls |-> <<>>]

SystemMessage(content) ==
    [type |-> "SystemMessage", content |-> content, name |-> None,
     tool_call_id |-> NoId, tool_calls |-> <<>>]

\* "the result of multiplying 23 and 45 is 1035."
Multiplying23And45 ==
    <<"2", "3", " and ", "4", "5", " is ", "1", "0", "3", "5", ".">>

\* ----------------------------------------------------- agent.py: the parser
\* LLMResponse(thought, tool_calls, response)
LLMResponse(thought, tool_calls, response) ==
    [thought |-> thought, tool_calls |-> tool_calls, response |-> response]

\* The text of a JSON document as the model may write it.  json: it is one
\* JSON object; thought: the "thought" key is present and a string;
\* tc: the "tool_calls" key is "absent", "null", a "list" of well-shaped
\* calls, or "invalid"; rs: the "response" key is "absent", a "str" or
\* "invalid" (not a string).
JsonDoc(json, has_thought, thought, tc, calls, rs, response) ==
    [json |-> json, has_thought |-> has_thought, thought |-> thought,
     tc |-> tc, calls |-> calls, rs |-> rs, response |-> response]

NoDoc == JsonDoc(FALSE, FALSE, <<>>, "absent", <<>>, "absent", <<>>)

\* the pieces of a raw reply: prose, a ``` fence, a ```json fence, or the
\* text of a document
Prose == [k |-> "prose", doc |-> NoDoc]
Fence == [k |-> "fence", doc |-> NoDoc]
FenceJson == [k |-> "fencejson", doc |-> NoDoc]
DocText(d) == [k |-> "doc", doc |-> d]

IsFence(tok) == tok.k \in {"fence", "fencejson"}

\* re.search(r"```(?:json)?(.*?)```", content, re.DOTALL): the captured
\* group between the first fence and the next one, when there are two
FencedGroup(content) ==
    LET fences == {k \in 1..Len(content) : IsFence(content[k])} IN
    IF Cardinality(fences) < 2 THEN [found |-> FALSE, group |-> <<>>]
    ELSE LET first == CHOOSE k \in fences : \A m \in fences : k <= m
             rest == fences \ {first}
             second == CHOOSE k \in rest : \A m \in rest : k <= m
         IN [found |-> TRUE, group |-> SubSeq(content, first + 1, second - 1)]

\* json_str.replace("```json", "").replace("```", "")
StripFences(toks) == SelectSeq(toks, LAMBDA tok : ~IsFence(tok))

\* LLMResponse.model_validate_json(json_str): raised is TRUE on a decoding
\* or validation error
model_validate_json(json_str) ==
    IF /\ Len(json_str) = 1
       /\ json_str[1].k = "doc"
       /\ json_str[1].doc.json
       /\ json_str[1].doc.has_thought
       /\ json_str[1].doc.tc # "invalid"
       /\ json_str[1].doc.rs # "invalid"
    THEN LET d == json_str[1].doc IN
         [raised |-> FALSE,
          val |-> LLMResponse(d.thought,
                              IF d.tc = "list" THEN d.calls ELSE <<>>,
                              IF d.rs = "str" THEN d.response ELSE <<>>)]
    ELSE [raised |-> TRUE, val |-> LLMResponse(<<>>, <<>>, <<>>)]

\* the default response of the except branch of parse_llm_response
FallbackResponse ==
    LLMResponse(<<"I had trouble parsing the response.">>, <<>>,
                <<"I apologize, but I encountered an error. The result of multiplying ">>
                    \o Multiplying23And45)

\* the text model_validate_json is given
JsonStr(content) ==
    LET m == FencedGroup(content) IN
    StripFences(IF m.found THEN m.group ELSE content)

\* a parser whose except branch returns an empty decision
parse_llm_response_NoFallback(content) ==
    model_validate_json(JsonStr(content)).val

parse_llm_response(content) ==
    LET r == model_validate_json(JsonStr(content)) IN
    IF r.raised THEN FallbackResponse ELSE r.val

\* ------------------------------------------------------------------ inputs
\* the user's query
Queries == {<<"what is 23 times 45?">>}

\* a ToolCall(name, args) of a decoded reply
ToolCall(name, args) == [name |-> name, args |-> args]

X == StrVal(<<"x">>)

\* the tool calls the model asks for one at a time
SingleCalls ==
    { ToolCall("multiply_numbers", Dict(IntVal(2), IntVal(3))),
      ToolCall("add", Dict(IntVal(2), IntVal(3))),
      ToolCall("divide_numbers", Dict(IntVal(2), IntVal(3))),
      ToolCall("multiply_numbers", Dict(IntVal(2), NoneVal)) }

\* the tool calls the model combines in one reply: a known tool and an
\* unknown one
KnownCall == ToolCall("multiply_numbers", Dict(IntVal(2), IntVal(3)))
UnknownCall == ToolCall("divide_numbers", Dict(IntVal(2), IntVal(3)))

\* the replies with n tool calls: all known, or the k-th one unknown
Group(n) ==
    { [j \in 1..n |-> IF j = k THEN UnknownCall ELSE KnownCall] : k \in 0..n }

\* the non-empty tool_calls lists of a reply
Rounds ==
    { <<c>> : c \in SingleCalls } \cup
    UNION { Group(n) : n \in 2..MaxCalls }

Thoughts == { <<"Let me think">>, <<"I have the ", "Final Answer">>, <<>> }

ResponseText == <<"The answer to your question is ", "6", ".">>

\* the documents the model writes
Docs ==
    \* tool requests, without and with a response text
    { JsonDoc(TRUE, TRUE, <<"Let me think">>, "list", r, "absent", <<>>) :
        r \in Rounds } \cup
    { JsonDoc(TRUE, TRUE, <<"Let me think">>, "list", <<c>>, "str", ResponseText) :
        c \in {KnownCall} } \cup
    \* a tool request whose thought speaks of the final answer
    { JsonDoc(TRUE, TRUE, <<"I have the ", "Final Answer">>, "list", <<c>>, "absent", <<>>) :
        c \in {KnownCall} } \cup
    \* final answers
    { JsonDoc(TRUE, TRUE, <<"Let me think">>, tc, <<>>, "str", ResponseText) :
        tc \in {"absent", "null", "list"} } \cup
    \* reasoning only
    { JsonDoc(TRUE, TRUE, t, "list", <<>>, rs, <<>>) :
        t \in Thoughts, rs \in {"absent", "str"} } \cup
    \* not JSON, no thought, ill-shaped tool_calls, response not a string
    { JsonDoc(FALSE, TRUE, <<"Let me think">>, "list", <<>>, "str", ResponseText),
      JsonDoc(TRUE, FALSE, <<>>, "list", <<>>, "str", ResponseText),
      JsonDoc(TRUE, TRUE, <<"Let me think">>, "invalid", <<>>, "str", ResponseText),
      JsonDoc(TRUE, TRUE, <<"Let me think">>, "list", <<>>, "invalid", <<>>) }

\* the ways the model wraps a document in its raw reply
Wrap(k, d) ==
    CASE k = 1 -> <<DocText(d)>>
      [] k = 2 -> <<FenceJson, DocText(d), Fence>>
      [] k = 3 -> <<Prose, Fence, DocText(d), Fence, Prose>>
      [] k = 4 -> <<Prose, DocText(d)>>
      [] k = 5 -> <<FenceJson, DocText(d)>>
      [] OTHER -> <<Fence, Prose, Fence, DocText(d)>>

\* the raw replies of the model
RawReplies == { Wrap(k, d) : k \in 1..6, d \in Docs }

\* str(e) of the exceptions llm.invoke raises
QueryErrors == { <<"Connection refused">>, <<"no ", "Final Answer", " from model">> }

\* ------------------------------------------- agent.py: run_conversation
VARIABLES
    messages,        \* the list run_conversation appends to and returns
    max_steps,       \* its max_steps argument
    step_count,
    tools_used,
    pc,              \* "start", "loop" (at the while test), "after_loop",
                     \* "return" or "raised" (run_conversation is left),
                     \* "agent_return", "responded"
    state,           \* AWAITING_MODEL, FINALIZED or STEP_LIMIT_REACHED
    last_step,       \* what the last pass through the loop body did
    queries,         \* number of llm.invoke calls so far
    temp_messages,   \* the messages given to the last llm.invoke
    parsed_response, \* the last result of parse_llm_response
    parse_error,     \* the last parse logged "Error parsing LLM response"
    tool_call,       \* the argument of a direct execute_tool_call
    tool_result,     \* and what that call produced
    result,          \* the list run_agent returns (<<>> before it returns)
    response         \* the response of the /agent endpoint

vars == <<messages, max_steps, step_count, tools_used, pc, state, last_step,
          queries, temp_messages, parsed_response, parse_error,
          tool_call, tool_result, result, response>>

loop_vars == <<messages, max_steps, step_count, tools_used, pc, state,
               last_step, queries, temp_messages, parsed_response, parse_error>>

dispatch_vars == <<tool_call, tool_result>>

agent_vars == <<result, response>>

\* no response sent yet
NoResponse == [status_code |-> 0, messages |-> <<>>, answer |-> <<>>]

NoCall == ToolCallDict(NoId, "", Mapping(NotADict))
NoResult == [done |-> FALSE, raised |-> FALSE, msg |-> ToolMessage(<<>>, "", NoId)]

\* the hint added to the model's input once tools were used
hint_message ==
    SystemMessage(<<"\nIMPORTANT: You have already used tools to calculate the answer. Now you should provide a ",
                    "FINAL ANSWER", ".\nDo NOT call any more tools.">>)

\* the hint appended to messages after a tool round
explicit_hint ==
    SystemMessage(<<"SYSTEM: Now that you have the calculation result, please provide your ",
                    "FINAL ANSWER", ".">>)

\* the message appended when tools were used and step_count >= 3
ForcedFinalMessage ==
    AIMessage(<<"Based on the calculations, the result of multiplying ">>
              \o Multiplying23And45)

\* the message of the except branch when step_count >= 2
ErrorFinalMessage ==
    AIMessage(<<"Based on my calculations, the result of multiplying ">>
              \o Multiplying23And45)

\* the message of the except branch when step_count < 2
ErrorMessage(err) == AIMessage(<<"I encountered an error: ">> \o err)

\* the message appended after the loop when step_count >= max_steps
StepLimitMessage ==
    AIMessage(<<"I've reached the maximum number of steps. To answer your question: The result of multiplying ">>
              \o Multiplying23And45)

\* the final content without the response
FinalContent_NoResponse(p) == p.thought \o <<"\n\nFinal answer: ">>

\* f"{parsed_response.thought}\n\nFinal answer: {parsed_response.response}"
FinalContent(p) == p.thought \o <<"\n\nFinal answer: ">> \o p.response

\* run_agent's messages = [HumanMessage(content=user_input)], then
\* step_count = 0 and tools_used = False
Init ==
    /\ \E q \in Queries : messages = <<HumanMessage(q)>>
    /\ max_steps \in 0..MaxStepsBound
    /\ step_count = 0
    /\ tools_used = FALSE
    /\ pc = "start"
    /\ state = "AWAITING_MODEL"
    /\ last_step = "none"
    /\ queries = 0
    /\ temp_messages = <<>>
    /\ parsed_response = LLMResponse(<<>>, <<>>, <<>>)
    /\ parse_error = FALSE
    /\ tool_call = NoCall
    /\ tool_result = NoResult
    /\ result = <<>>
    /\ response = NoResponse

\* get_llm() and the prompt are built; the loop is entered
Setup ==
    /\ pc = "start"
    /\ pc' = "loop"
    /\ UNCHANGED <<messages, max_steps, step_count, tools_used, state, last_step,
                   queries, temp_messages, parsed_response, parse_error,
                   dispatch_vars, agent_vars>>

\* get_llm() or the construction of the prompt raises: the exception leaves
\* run_conversation
SetupRaises ==
    /\ pc = "start"
    /\ pc' = "raised"
    /\ last_step' = "escaped"
    /\ UNCHANGED <<messages, max_steps, step_count, tools_used, state,
                   queries, temp_messages, parsed_response, parse_error,
                   dispatch_vars, agent_vars>>

\* the while test written with <=
InLoop_OffByOne == pc = "loop" /\ step_count <= max_steps

\* "while step_count < max_steps"
InLoop == pc = "loop" /\ step_count < max_steps

\* the marker test without .lower()
FinalAnswerDetected_CaseSensitive ==
    /\ step_count > 0
    /\ messages[Len(messages)].type = "AIMessage"
    /\ \E k \in 1..Len(messages[Len(messages)].content) :
          messages[Len(messages)].content[k] \in MarkerChunks

\* the last message is an AIMessage with "final answer" in it
FinalAnswerDetected ==
    /\ step_count > 0
    /\ messages[Len(messages)].type = "AIMessage"
    /\ HasFinalAnswerMarker(messages[Len(messages)].content)

\* the forced termination written with >
ForcedTermination_Strict ==
    /\ step_count > 0
    /\ tools_used
    /\ step_count > InnerRoundBound

\* "if tools_used and step_count >= 3"
ForcedTermination ==
    /\ step_count > 0
    /\ tools_used
    /\ step_count >= InnerRoundBound

\* the loop body gets as far as llm.invoke
ReachesQuery == InLoop /\ ~FinalAnswerDetected /\ ~ForcedTermination

\* the model input built from the query and the hint alone
TempMessages_NoResults ==
    IF tools_used THEN <<messages[1], hint_message>> ELSE messages

\* the model input with the hint whether or not tools were used
TempMessages_AlwaysHint == messages \o <<hint_message>>

\* temp_messages = messages + [hint_message] if tools_used else messages
TempMessages == IF tools_used THEN messages \o <<hint_message>> ELSE messages

\* the first break: the last message already holds a final answer
EarlyExit ==
    /\ InLoop
    /\ FinalAnswerDetected
    /\ pc' = "after_loop"
    /\ state' = "FINALIZED"
    /\ last_step' = "early_exit"
    /\ UNCHANGED <<messages, max_steps, step_count, tools_used, queries,
                   temp_messages, parsed_response, parse_error, dispatch_vars, agent_vars>>

\* the second break: forced termination after tool use
ForceFinal ==
    /\ InLoop
    /\ ~FinalAnswerDetected
    /\ ForcedTermination
    /\ messages' = Append(messages, ForcedFinalMessage)
    /\ pc' = "after_loop"
    /\ state' = "FINALIZED"
    /\ last_step' = "forced"
    /\ UNCHANGED <<max_steps, step_count, tools_used, queries,
                   temp_messages, parsed_response, parse_error, dispatch_vars, agent_vars>>

\* the except branch with the threshold test written with >
HandleException_Late(msgs, err) ==
    IF step_count > ErrorStepThreshold
    THEN /\ messages' = Append(msgs, ErrorFinalMessage)
         /\ pc' = "after_loop"
         /\ state' = "FINALIZED"
         /\ last_step' = "error_final"
         /\ UNCHANGED step_count
    ELSE /\ messages' = Append(msgs, ErrorMessage(err))
         /\ step_count' = step_count + 1
         /\ last_step' = "error_continue"
         /\ UNCHANGED <<pc, state>>

\* the except branch of the loop body, entered with msgs as the messages so far
HandleException(msgs, err) ==
    IF step_count >= ErrorStepThreshold
    THEN /\ messages' = Append(msgs, ErrorFinalMessage)
         /\ pc' = "after_loop"
         /\ state' = "FINALIZED"
         /\ last_step' = "error_final"
         /\ UNCHANGED step_count
    ELSE /\ messages' = Append(msgs, ErrorMessage(err))
         /\ step_count' = step_count + 1
         /\ last_step' = "error_continue"
         /\ UNCHANGED <<pc, state>>

\* llm.invoke raises
LLMRaises ==
    /\ ReachesQuery
    /\ \E err \in QueryErrors : HandleException(messages, err)
    /\ queries' = queries + 1
    /\ temp_messages' = TempMessages
    /\ UNCHANGED <<max_steps, tools_used, parsed_response, parse_error, dispatch_vars, agent_vars>>

\* what a query that returns leaves behind before the reply is acted on
Replied(raw) ==
    /\ queries' = queries + 1
    /\ temp_messages' = TempMessages
    /\ parsed_response' = parse_llm_response(raw)
    /\ parse_error' = model_validate_json(JsonStr(raw)).raised
    /\ UNCHANGED <<max_steps, dispatch_vars, agent_vars>>

\* the final-answer branch taken on any reply with a response
LLMFinalAnswer_ResponseWins ==
    /\ ReachesQuery
    /\ \E raw \in RawReplies :
         LET p == parse_llm_response(raw) IN
         /\ p.response # <<>>
         /\ Replied(raw)
         /\ messages' = Append(messages, AIMessage(FinalContent(p)))
    /\ pc' = "after_loop"
    /\ state' = "FINALIZED"
    /\ last_step' = "final"
    /\ UNCHANGED <<step_count, tools_used>>

\* the reply is a final answer: a response and no tool calls
LLMFinalAnswer ==
    /\ ReachesQuery
    /\ \E raw \in RawReplies :
         LET p == parse_llm_response(raw) IN
         /\ p.response # <<>>
         /\ p.tool_calls = <<>>
         /\ Replied(raw)
         /\ messages' = Append(messages, AIMessage(FinalContent(p)))
    /\ pc' = "after_loop"
    /\ state' = "FINALIZED"
    /\ last_step' = "final"
    /\ UNCHANGED <<step_count, tools_used>>

\* ai_message.tool_calls for the tool calls of a reply
ToolCallDicts(calls) ==
    [k \in 1..Len(calls) |->
        ToolCallDict(CallId(k - 1), calls[k].name, json_dumps(calls[k].args))]

\* the AIMessage that records the tool calls of a reply
ToolCallsMessage(p) ==
    [AIMessage(p.thought) EXCEPT !.tool_calls = ToolCallDicts(p.tool_calls)]

\* a tool round that starts the list again
ToolRound_Restart(msgs, ai_message, tool_messages) ==
    <<ai_message>> \o tool_messages \o <<explicit_hint>>

\* a tool round that forgets the hint
ToolRound_NoHint(msgs, ai_message, tool_messages) ==
    Append(msgs, ai_message) \o tool_messages

\* messages.append(ai_message); messages.extend(tool_messages);
\* messages.append(explicit_hint)
ToolRound(msgs, ai_message, tool_messages) ==
    Append(msgs, ai_message) \o tool_messages \o <<explicit_hint>>

\* the reply asks for tools: record the calls, run them in order, append the
\* results and the hint
LLMToolCalls ==
    /\ ReachesQuery
    /\ \E raw \in RawReplies :
         LET p == parse_llm_response(raw)
             ai_message == ToolCallsMessage(p)
             results == [k \in 1..Len(p.tool_calls) |->
                            execute_tool_call(ai_message.tool_calls[k])]
             tool_messages == [k \in 1..Len(results) |-> results[k].msg]
         IN
         /\ p.tool_calls # <<>>
         /\ Replied(raw)
         /\ IF \E k \in 1..Len(results) : results[k].raised
            THEN /\ HandleException(Append(messages, ai_message),
                                    <<"tool call failed">>)
                 /\ UNCHANGED tools_used
            ELSE /\ messages' = ToolRound(messages, ai_message, tool_messages)
                 /\ tools_used' = TRUE
                 /\ step_count' = step_count + 1
                 /\ last_step' = "tools"
                 /\ UNCHANGED <<pc, state>>

\* the reply has neither tool calls nor a response
LLMReasoningOnly ==
    /\ ReachesQuery
    /\ \E raw \in RawReplies :
         LET p == parse_llm_response(raw) IN
         /\ p.response = <<>>
         /\ p.tool_calls = <<>>
         /\ Replied(raw)
         /\ messages' = Append(messages, AIMessage(p.thought))
    /\ step_count' = step_count + 1
    /\ last_step' = "reasoning"
    /\ UNCHANGED <<pc, state, tools_used>>

\* the while test fails
LoopExit ==
    /\ pc = "loop"
    /\ ~(step_count < max_steps)
    /\ pc' = "after_loop"
    /\ UNCHANGED <<messages, max_steps, step_count, tools_used, state, last_step,
                   queries, temp_messages, parsed_response, parse_error,
                   dispatch_vars, agent_vars>>

\* the step-limit test written with >
AfterLoop_Strict ==
    /\ pc = "after_loop"
    /\ IF step_count > max_steps
       THEN /\ messages' = Append(messages, StepLimitMessage)
            /\ state' = "STEP_LIMIT_REACHED"
       ELSE UNCHANGED <<messages, state>>
    /\ pc' = "return"
    /\ UNCHANGED <<max_steps, step_count, tools_used, last_step, queries,
                   temp_messages, parsed_response, parse_error, dispatch_vars, agent_vars>>

\* "Handle max steps reached", then return messages
AfterLoop ==
    /\ pc = "after_loop"
    /\ IF step_count >= max_steps
       THEN /\ messages' = Append(messages, StepLimitMessage)
            /\ state' = "STEP_LIMIT_REACHED"
       ELSE UNCHANGED <<messages, state>>
    /\ pc' = "return"
    /\ UNCHANGED <<max_steps, step_count, tools_used, last_step, queries,
                   temp_messages, parsed_response, parse_error, dispatch_vars, agent_vars>>

\* ---------------------------------------- agent.py: run_agent and main.py
\* the message of run_agent's except branch
AgentFallbackMessage ==
    AIMessage(<<"I apologize, but I encountered an error. The result of multiplying ">>
              \o Multiplying23And45)

\* run_conversation(messages, max_steps=5) returned: run_agent returns its
\* result
RunAgentReturns ==
    /\ pc = "return"
    /\ max_steps = DefaultMaxSteps
    /\ result' = messages
    /\ pc' = "agent_return"
    /\ UNCHANGED <<messages, max_steps, step_count, tools_used, state, last_step,
                   queries, temp_messages, parsed_response, parse_error,
                   dispatch_vars, response>>

\* the except branch returning the messages without a fallback message
RunAgentCatches_NoFallback ==
    /\ pc = "raised"
    /\ max_steps = DefaultMaxSteps
    /\ result' = messages
    /\ pc' = "agent_return"
    /\ UNCHANGED <<messages, max_steps, step_count, tools_used, state, last_step,
                   queries, temp_messages, parsed_response, parse_error,
                   dispatch_vars, response>>

\* run_conversation raised: run_agent's except branch returns
\* messages + [final_message]
RunAgentCatches ==
    /\ pc = "raised"
    /\ max_steps = DefaultMaxSteps
    /\ result' = messages \o <<AgentFallbackMessage>>
    /\ pc' = "agent_return"
    /\ UNCHANGED <<messages, max_steps, step_count, tools_used, state, last_step,
                   queries, temp_messages, parsed_response, parse_error,
                   dispatch_vars, response>>

\* type(msg).__name__.replace("Message", "").lower()
MessageType(msg) ==
    CASE msg.type = "HumanMessage" -> "human"
      [] msg.type = "AIMessage" -> "ai"
      [] msg.type = "SystemMessage" -> "system"
      [] OTHER -> "tool"

\* MessageResponse(type, content) with the name added when msg.name is set
MessageResponse(msg) ==
    [type |-> MessageType(msg), content |-> msg.content,
     name |-> IF msg.name # None /\ msg.name # "" THEN msg.name ELSE None]

\* main.py: the answer is the content of the last AIMessage
FinalAnswer(msgs) ==
    LET ai == {k \in 1..Len(msgs) : msgs[k].type = "AIMessage"} IN
    IF ai = {} THEN <<"No answer provided">>
    ELSE msgs[CHOOSE k \in ai : \A m \in ai : m <= k].content

\* query_agent after run_agent returned: the AgentResponse it sends
QueryAgent ==
    /\ pc = "agent_return"
    /\ response' = [status_code |-> 200,
                     messages |-> [k \in 1..Len(result) |-> MessageResponse(result[k])],
                     answer |-> FinalAnswer(result)]
    /\ pc' = "responded"
    /\ UNCHANGED <<messages, max_steps, step_count, tools_used, state, last_step,
                   queries, temp_messages, parsed_response, parse_error,
                   dispatch_vars, result>>

Next ==
    \/ Setup
    \/ SetupRaises
    \/ EarlyExit
    \/ ForceFinal
    \/ LLMRaises
    \/ LLMFinalAnswer
    \/ LLMToolCalls
    \/ LLMReasoningOnly
    \/ LoopExit
    \/ AfterLoop
    \/ RunAgentReturns
    \/ RunAgentCatches
    \/ QueryAgent

Spec == Init /\ [][Next]_vars

\* the loop body and the return are always taken
FairSpec == Spec /\ WF_vars(Next)

\* ------------------------------------- execute_tool_call called on its own
DispatchNames ==
    {"multiply_numbers", "multiply", "add_numbers", "add",
     "subtract_numbers", "subtract", "divide_numbers", ""}

DispatchValues == {IntVal(2), IntVal(3), IntVal(0 - 2), X, NoneVal}

DispatchDicts == { Dict(va, vb) : va \in DispatchValues, vb \in DispatchValues }

DispatchArguments ==
    { JsonText(d) : d \in DispatchDicts } \cup
    { Mapping(d) : d \in DispatchDicts } \cup
    { MalformedJson, JsonText(NotADict), Mapping(NotADict), NoArguments }

DispatchCalls ==
    { ToolCallDict(id, n, a) :
        id \in {NoId, CallId(0)}, n \in DispatchNames, a \in DispatchArguments }

DispatchInit ==
    /\ tool_call \in DispatchCalls
    /\ tool_result = NoResult
    /\ messages = <<>>
    /\ max_steps = 0
    /\ step_count = 0
    /\ tools_used = FALSE
    /\ pc = "dispatch"
    /\ state = "AWAITING_MODEL"
    /\ last_step = "none"
    /\ queries = 0
    /\ temp_messages = <<>>
    /\ parsed_response = LLMResponse(<<>>, <<>>, <<>>)
    /\ parse_error = FALSE
    /\ result = <<>>
    /\ response = NoResponse

\* tool_message = execute_tool_call(tool_call)
Dispatch ==
    /\ pc = "dispatch"
    /\ ~tool_result.done
    /\ tool_result' = [done |-> TRUE,
                       raised |-> execute_tool_call(tool_call).raised,
                       msg |-> execute_tool_call(tool_call).msg]
    /\ UNCHANGED <<tool_call, loop_vars, agent_vars>>

DispatchNext == Dispatch

SpecDispatch == DispatchInit /\ [][DispatchNext]_vars

\* ------------------------------------------------------------ observations
TerminalStates == {"FINALIZED", "STEP_LIMIT_REACHED"}

\* the positions of the ToolMessages of a transcript
ToolMessageIndexes(msgs) == {k \in 1..Len(msgs) : msgs[k].type = "ToolMessage"}

\* a ToolMessage that carries the dict of a tool function, not an error
IsSuccess(m) ==
    /\ m.type = "ToolMessage"
    /\ Len(m.content) > 0
    /\ m.content[1] = "{'result': "

\* the position of the first chunk equal to c at or after position from
\* (0 when there is none)
IndexOf(text, c, from) ==
    LET at == {k \in from..Len(text) : text[k] = c} IN
    IF at = {} THEN 0 ELSE CHOOSE k \in at : \A m \in at : k <= m

\* the chunks of text strictly between the first chunk a and the next chunk b
Between(text, a, b) ==
    LET i == IndexOf(text, a, 1)
        j == IF i = 0 THEN 0 ELSE IndexOf(text, b, i + 1)
    IN IF i = 0 \/ j = 0 THEN <<>> ELSE SubSeq(text, i + 1, j - 1)

\* the result value a successful ToolMessage carries, as printed
ResultValue(m) == Between(m.content, "{'result': ", ", 'explanation': '")

\* the value a canned answer "... is <value>." reports
ReportedValue(content) == Between(content, " is ", ".")

\* the step from the current state to the next appended an AIMessage that
\* records tool calls
ToolRoundStep ==
    /\ queries' = queries + 1
    /\ Len(messages') > Len(messages)
    /\ messages'[Len(messages) + 1].type = "AIMessage"
    /\ messages'[Len(messages) + 1].tool_calls # <<>>

\* ------------------------------------------------------------------ claims

\* C1: once the loop is entered run_conversation always returns, and it
\* returns in FINALIZED or STEP_LIMIT_REACHED; the step counter never exceeds max_steps and the model
\* is queried at most max_steps times.
C1_Terminates ==
    /\ [](/\ step_count <= max_steps
          /\ queries <= max_steps
          /\ (pc = "return" => state \in TerminalStates))
    /\ (pc = "loop") ~> (pc = "return")

\* a run of the full length: max_steps queries, the last one a final answer
C1_Witness ==
    /\ pc = "return"
    /\ max_steps = DefaultMaxSteps
    /\ queries = max_steps
    /\ state = "FINALIZED"

\* C2: when the loop forces FINALIZED because tools were used and the step
\* counter reached the inner round bound, the value the appended answer
\* reports equals the result value of the most recent successful ToolMessage.
C2_ForcedAnswerFromLastResult ==
    (last_step = "forced") =>
        LET ok == {k \in ToolMessageIndexes(messages) : IsSuccess(messages[k])} IN
        ok # {} =>
            LET last == CHOOSE k \in ok : \A m \in ok : m <= k IN
            ReportedValue(messages[Len(messages)].content) = ResultValue(messages[last])

\* C3: every ToolMessage of the transcript has a tool_call_id no other
\* ToolMessage has, and that id is the id of exactly one tool call of exactly
\* one earlier AIMessage.
C3_UniqueRequestIds ==
    \A k \in ToolMessageIndexes(messages) :
        /\ \A m \in ToolMessageIndexes(messages) :
              m # k => messages[m].tool_call_id # messages[k].tool_call_id
        /\ Cardinality({ <<a, c>> \in (1..(k - 1)) \X (1..MaxCalls) :
                           /\ messages[a].type = "AIMessage"
                           /\ c <= Len(messages[a].tool_calls)
                           /\ messages[a].tool_calls[c].id = messages[k].tool_call_id })
             = 1

\* C4: a step whose decoded reply has no tool calls and a non-empty response
\* appends exactly one AIMessage and reaches FINALIZED in that step, no model
\* query follows, and the answer (the content of the last AIMessage) contains
\* the response text.
C4_FinalAnswerInOneStep ==
    [][ /\ ( /\ queries' = queries + 1
             /\ parsed_response'.tool_calls = <<>>
             /\ parsed_response'.response # <<>> )
           => /\ Len(messages') = Len(messages) + 1
              /\ SubSeq(messages', 1, Len(messages)) = messages
              /\ messages'[Len(messages')].type = "AIMessage"
              /\ state' = "FINALIZED"
              /\ pc' = "after_loop"
              /\ step_count' = step_count
              /\ Contains(FinalAnswer(messages'), parsed_response'.response)
        /\ (last_step = "final")
           => /\ queries' = queries
              /\ state' = "FINALIZED"
              /\ Contains(FinalAnswer(messages'), parsed_response.response)
      ]_vars

\* a final answer given after a tool round, returned
C4_Witness ==
    /\ pc = "return"
    /\ last_step = "final"
    /\ ~parse_error
    /\ tools_used
    /\ parsed_response.response = ResponseText

\* C5: when a reply does not decode, the parser returns the fixed fallback
\* decision (no tool calls, the apology text) instead of raising, and the
\* loop reaches FINALIZED within the step bound with a non-empty answer.
C5_FallbackFinalizes ==
    parse_error =>
        /\ parsed_response = FallbackResponse
        /\ parsed_response.tool_calls = <<>>
        /\ parsed_response.response # <<>>
        /\ last_step = "final"
        /\ state = "FINALIZED"
        /\ pc \notin {"start", "loop", "raised"}
        /\ step_count < max_steps
        /\ FinalAnswer(messages) # <<>>
        /\ Contains(FinalAnswer(messages), parsed_response.response)

\* unparseable noise on the first query, and the run has returned
C5_Witness ==
    /\ pc = "return"
    /\ parse_error
    /\ queries = 1

\* C6: execute_tool_call returns exactly one ToolMessage, a success or a
\* failure, for every tool call, and never raises.
C6_DispatchTotal ==
    tool_result.done =>
        /\ ~tool_result.raised
        /\ tool_result.msg.type = "ToolMessage"
        /\ tool_result.msg.content # <<>>
        /\ IsSuccess(tool_result.msg) # (tool_result.msg.content[1] \in {"Error: ", "Error: Tool '"})
        /\ tool_result.msg.tool_call_id =
              (IF tool_call.id = NoId THEN <<"call_", "1">> ELSE tool_call.id)

\* a known tool called through its alias with malformed arguments
C6_Witness ==
    /\ tool_result.done
    /\ tool_call.function.name = "add"
    /\ tool_call.function.arguments = MalformedJson
    /\ tool_result.msg.content[1] = "Error: "

\* C7: a tool call whose name is not a registered operation, aliases
\* included, gets the ToolMessage "Error: Tool '<name>' not found." in the
\* transcript, and the loop goes on to its next step instead of ending.
C7_UnknownToolContinues ==
    [][ ToolRoundStep =>
          LET ai == messages'[Len(messages) + 1] IN
          \A k \in 1..Len(ai.tool_calls) :
              LET name == ai.tool_calls[k].function.name IN
              name \notin (TOOLS \cup {"multiply", "add", "subtract"}) =>
                  /\ Len(messages') >= Len(messages) + 1 + k
                  /\ messages'[Len(messages) + 1 + k] =
                        ToolMessage(<<"Error: Tool '", name, "' not found.">>,
                                    name, ai.tool_calls[k].id)
                  /\ pc' = "loop"
                  /\ state' = "AWAITING_MODEL"
                  /\ step_count' = step_count + 1
      ]_vars

\* an unknown tool was asked for and the loop is about to query again
C7_Witness ==
    /\ last_step = "tools"
    /\ \E k \in ToolMessageIndexes(messages) :
          messages[k].content = <<"Error: Tool '", "divide_numbers", "' not found.">>
    /\ pc = "loop"
    /\ step_count < max_steps

\* C8: calling multiply, add or subtract gives the same ToolMessage (name and
\* content) as calling multiply_numbers, add_numbers or subtract_numbers with
\* the same arguments and id.
C8_AliasSameAsCanonical ==
    \A alias \in {"multiply", "add", "subtract"} :
        (tool_result.done /\ tool_call.function.name = alias) =>
            LET canonical == CASE alias = "multiply" -> "multiply_numbers"
                               [] alias = "add" -> "add_numbers"
                               [] OTHER -> "subtract_numbers"
                direct == execute_tool_call(
                              ToolCallDict(tool_call.id, canonical,
                                           tool_call.function.arguments))
            IN /\ tool_result.raised = direct.raised
               /\ tool_result.msg = direct.msg
               /\ tool_result.msg.name = canonical

\* the alias add computed a sum
C8_Witness ==
    /\ tool_result.done
    /\ tool_call.function.name = "add"
    /\ IsSuccess(tool_result.msg)
    /\ ResultValue(tool_result.msg) = <<"5">>

\* C9: a run that leaves the loop with the step counter at max_steps and
\* without a break ends in STEP_LIMIT_REACHED with the step-limit message as
\* its last message and a non-empty answer; a run that reached FINALIZED has
\* no step-limit message.
C9_StepLimit ==
    /\ (last_step \in {"early_exit", "forced", "final", "error_final"}) =>
          /\ state = "FINALIZED"
          /\ step_count < max_steps
          /\ \A k \in 1..Len(messages) : messages[k] # StepLimitMessage
    /\ (pc = "return" /\ last_step \notin {"early_exit", "forced", "final", "error_final"}) =>
          /\ step_count = max_steps
          /\ state = "STEP_LIMIT_REACHED"
          /\ messages[Len(messages)] = StepLimitMessage
          /\ Cardinality({k \in 1..Len(messages) : messages[k] = StepLimitMessage}) = 1
          /\ FinalAnswer(messages) = StepLimitMessage.content
          /\ FinalAnswer(messages) # <<>>
    /\ (pc = "return") => state \in TerminalStates

\* the default five steps used up without a final answer
C9_Witness ==
    /\ pc = "return"
    /\ state = "STEP_LIMIT_REACHED"
    /\ max_steps = DefaultMaxSteps
    /\ step_count = max_steps

\* C10: a tool round with n requests appends one AIMessage recording the n
\* calls, then n ToolMessages of which the i-th answers the i-th request,
\* then one SystemMessage; a returned run of one one-request round and a
\* final answer has exactly one ToolMessage.
C10_ToolRoundShape ==
    /\ [][ ToolRoundStep =>
             LET base == Len(messages)
                 calls == parsed_response'.tool_calls
                 n == Len(calls)
                 ai == messages'[base + 1]
             IN /\ n >= 1
                /\ Len(messages') = base + n + 2
                /\ SubSeq(messages', 1, base) = messages
                /\ Len(ai.tool_calls) = n
                /\ \A i \in 1..n :
                      /\ ai.tool_calls[i].function.name = calls[i].name
                      /\ ai.tool_calls[i].function.arguments = JsonText(calls[i].args)
                      /\ messages'[base + 1 + i].type = "ToolMessage"
                      /\ messages'[base + 1 + i].tool_call_id = ai.tool_calls[i].id
                      /\ messages'[base + 1 + i] = execute_tool_call(ai.tool_calls[i]).msg
                      /\ \A j \in 1..n : j # i => ai.tool_calls[j].id # ai.tool_calls[i].id
                /\ messages'[base + n + 2].type = "SystemMessage"
         ]_vars
    /\ []( ( /\ pc = "return"
             /\ last_step = "final"
             /\ Cardinality({k \in 1..Len(messages) :
                               messages[k].tool_calls # <<>>}) = 1
             /\ \A k \in 1..Len(messages) : Len(messages[k].tool_calls) <= 1 )
           => Cardinality(ToolMessageIndexes(messages)) = 1 )

\* a returned run: one round of two requests, then a final answer
C10_Witness ==
    /\ pc = "return"
    /\ last_step = "final"
    /\ Len(messages) = 6
    /\ Len(messages[2].tool_calls) = 2
    /\ messages[3].type = "ToolMessage"
    /\ messages[4].type = "ToolMessage"
    /\ messages[3].content # messages[4].content
    /\ messages[5].type = "SystemMessage"

\* C11: every step of run_conversation and run_agent only appends to the
\* transcript (the old list is a prefix of the new one, and of the list
\* run_agent returns), and its first entry is always the HumanMessage with
\* the query.
C11_AppendOnly ==
    /\ [][ /\ Len(messages') >= Len(messages)
           /\ SubSeq(messages', 1, Len(messages)) = messages
           /\ (result' # <<>>) =>
                 /\ Len(result') >= Len(messages)
                 /\ SubSeq(result', 1, Len(messages)) = messages
           /\ (result # <<>>) => result' = result
         ]_vars
    /\ [](/\ Len(messages) >= 1
          /\ \E q \in Queries : messages[1] = HumanMessage(q)
          /\ (result # <<>>) => result[1] = messages[1])

\* run_agent returned a transcript with two tool rounds in it
C11_Witness ==
    /\ pc = "agent_return"
    /\ result = messages
    /\ Cardinality({k \in 1..Len(result) : result[k].tool_calls # <<>>}) = 2
    /\ result[1].type = "HumanMessage"

\* C12: every message of a response of the endpoint has a type among user,
\* ai, system and tool; the entry for the query has type user and tool
\* results have type tool.
C12_MessageTypes ==
    (response.status_code = 200) =>
        /\ \A k \in 1..Len(response.messages) :
              response.messages[k].type \in {"user", "ai", "system", "tool"}
        /\ response.messages[1].type = "user"
        /\ \A k \in 1..Len(result) :
              result[k].type = "ToolMessage" => response.messages[k].type = "tool"

\* C13: an exception that leaves run_conversation is reported as a service
\* error (a status code outside 2xx), never as a successful response with an
\* answer.
C13_EscapedExceptionIsError ==
    (pc = "responded" /\ last_step = "escaped") =>
        /\ response.status_code \notin 200..299
        /\ response.answer = <<>>

\* the position of the most recent AIMessage of a transcript (0 if none)
LastAIMessage(msgs) ==
    LET ai == {k \in 1..Len(msgs) : msgs[k].type = "AIMessage"} IN
    IF ai = {} THEN 0 ELSE CHOOSE k \in ai : \A m \in ai : m <= k

\* the loop is at the start of a pass through its body
AtStepStart == pc = "loop" /\ step_count < max_steps

\* C14: a pass through the loop that starts with step_count >= 3, tools
\* used and no final answer in the last message appends one AIMessage and
\* reaches FINALIZED without a model query; no model query is ever made at
\* step_count >= 3 once tools were used.
C14_ForcedAtRoundBound ==
    [][ /\ ( /\ AtStepStart
             /\ step_count >= 3
             /\ tools_used
             /\ ~( /\ messages[Len(messages)].type = "AIMessage"
                   /\ HasFinalAnswerMarker(messages[Len(messages)].content) ) )
           => /\ Len(messages') = Len(messages) + 1
              /\ SubSeq(messages', 1, Len(messages)) = messages
              /\ messages'[Len(messages')].type = "AIMessage"
              /\ messages'[Len(messages')].tool_calls = <<>>
              /\ state' = "FINALIZED"
              /\ pc' = "after_loop"
              /\ queries' = queries
        /\ (queries' = queries + 1) => ~(tools_used /\ step_count >= 3)
      ]_vars

\* the forced answer after tools were first used at step 3
C14_Witness ==
    /\ last_step = "forced"
    /\ step_count = 4
    /\ pc = "return"

\* C15 as claimed: at a step after the first, when a tool round has occurred
\* and the most recent AIMessage of the transcript contains the final-answer
\* marker, the loop reaches FINALIZED without a model query and that message
\* is the answer.
C15_MostRecentModelMessage ==
    [][ ( /\ AtStepStart
          /\ step_count > 0
          /\ tools_used
          /\ LastAIMessage(messages) > 0
          /\ HasFinalAnswerMarker(messages[LastAIMessage(messages)].content) )
        => /\ queries' = queries
           /\ state' = "FINALIZED"
           /\ messages' = messages
           /\ FinalAnswer(messages') = messages[LastAIMessage(messages)].content
      ]_vars

\* C15 amended: at a step after the first, when a tool round has occurred
\* and the last entry of the transcript is an AIMessage that contains the
\* final-answer marker, the loop reaches FINALIZED without a model query and
\* that message is the answer.
C15_EarlyExitOnLastEntry ==
    [][ ( /\ AtStepStart
          /\ step_count > 0
          /\ tools_used
          /\ messages[Len(messages)].type = "AIMessage"
          /\ \E k \in 1..Len(messages[Len(messages)].content) :
                messages[Len(messages)].content[k]
                    \in {"final answer", "Final Answer", "FINAL ANSWER",
                         "\n\nFinal answer: "} )
        => /\ queries' = queries
           /\ state' = "FINALIZED"
           /\ pc' = "after_loop"
           /\ messages' = messages
           /\ FinalAnswer(messages') = messages[Len(messages)].content
      ]_vars

\* an early exit after a tool round, returned
C15_Witness ==
    /\ last_step = "early_exit"
    /\ tools_used
    /\ pc = "return"
    /\ FinalAnswer(messages) = <<"I have the ", "Final Answer">>

\* the step from the current state to the next is a model query that raised
QueryRaisedStep ==
    /\ queries' = queries + 1
    /\ last_step' \in {"error_continue", "error_final"}

\* what C16 says of the step at which the query raises, and of the steps
\* after a canned final answer
QueryRaiseBranches ==
    /\ QueryRaisedStep =>
          IF step_count >= 2
          THEN /\ messages' = Append(messages, ErrorFinalMessage)
               /\ state' = "FINALIZED"
               /\ pc' = "after_loop"
               /\ step_count' = step_count
          ELSE /\ Len(messages') = Len(messages) + 1
               /\ SubSeq(messages', 1, Len(messages)) = messages
               /\ messages'[Len(messages')].type = "AIMessage"
               /\ messages'[Len(messages')].content[1] = "I encountered an error: "
               /\ step_count' = step_count + 1
               /\ pc' = "loop"
               /\ state' = "AWAITING_MODEL"
    /\ (last_step = "error_final") => queries' = queries

\* C16 as claimed: a query that raises at step_count >= 2 appends the canned
\* final AIMessage and reaches FINALIZED with no further query; at
\* step_count < 2 it appends an error AIMessage, increments step_count, and
\* the next step is another model query.
C16_RetryQueries ==
    [][ /\ QueryRaiseBranches
        /\ (last_step = "error_continue" /\ pc = "loop") => queries' = queries + 1
      ]_vars

\* C16 amended: as claimed, but the next step is another model query only
\* when step_count is still below max_steps and the error text does not
\* contain the final-answer marker.
C16_RetryQueriesWithinBound ==
    [][ /\ QueryRaiseBranches
        /\ ( /\ last_step = "error_continue"
             /\ pc = "loop"
             /\ step_count < max_steps
             /\ ~HasFinalAnswerMarker(messages[Len(messages)].content) )
           => queries' = queries + 1
      ]_vars

\* the query raised at step 0, the model was queried again, and a later
\* raise at step 2 ended the run
C16_Witness ==
    /\ last_step = "error_final"
    /\ Len(messages) >= 3
    /\ messages[2].content[1] = "I encountered an error: "
    /\ step_count = 2
    /\ queries = 3

\* the arguments of a tool call satisfy the input schema of TOOLS: an object
\* whose fields a and b are both integers
SatisfiesSchema(arguments) ==
    /\ arguments.wf
    /\ arguments.form \in {"str", "dict"}
    /\ arguments.doc.isdict
    /\ arguments.doc.a.t = "int"
    /\ arguments.doc.b.t = "int"

\* C17: execute_tool_call returns a success payload only for arguments that
\* satisfy the input schema of the tool (a and b both present and both
\* integers); any other arguments give a failure ToolMessage.
C17_SchemaEnforced ==
    (tool_result.done /\ IsSuccess(tool_result.msg))
        => SatisfiesSchema(tool_call.function.arguments)

\* the ToolMessages of a transcript that the last model query had in its input
FedBack(msgs, input) ==
    {k \in ToolMessageIndexes(msgs) : k <= Len(input) /\ input[k] = msgs[k]}

\* C18 as claimed: every ToolMessage of a returned transcript was in the
\* input of a later model query of the conversation.
C18_EveryResultFedBack ==
    (pc = "return") =>
        FedBack(messages, temp_messages) = ToolMessageIndexes(messages)

\* C18 amended: every ToolMessage of the transcript is in the input of the
\* next model query, whenever there is one; a returned transcript has
\* ToolMessages that no query saw only if the loop ended after their round by
\* the forced final answer or by the step limit.
C18_ResultsInNextQuery ==
    /\ [][ (queries' = queries + 1) =>
              FedBack(messages, temp_messages') = ToolMessageIndexes(messages)
         ]_vars
    /\ []( ( /\ pc = "return"
             /\ FedBack(messages, temp_messages) # ToolMessageIndexes(messages) )
           => (last_step = "forced" \/ state = "STEP_LIMIT_REACHED") )

\* a tool round whose results were in the input of the query that gave the
\* final answer
C18_Witness ==
    /\ pc = "return"
    /\ last_step = "final"
    /\ ToolMessageIndexes(messages) # {}
    /\ FedBack(messages, temp_messages) = ToolMessageIndexes(messages)
    /\ temp_messages[Len(temp_messages)] = hint_message

\* C19: on every model query the input is the transcript followed by the
\* hint when tools were used and the transcript alone when they were not;
\* the step of the query only appends to the transcript, and the hint is
\* never an entry of the transcript or of what run_agent returns.
C19_HintIsAView ==
    /\ [][ (queries' = queries + 1) =>
              /\ tools_used =>
                    /\ Len(temp_messages') = Len(messages) + 1
                    /\ SubSeq(temp_messages', 1, Len(messages)) = messages
                    /\ temp_messages'[Len(temp_messages')] = hint_message
              /\ ~tools_used => temp_messages' = messages
              /\ SubSeq(messages', 1, Len(messages)) = messages
              /\ \A k \in 1..Len(messages') : messages'[k] # hint_message
         ]_vars
    /\ [](/\ \A k \in 1..Len(messages) : messages[k] # hint_message
          /\ \A k \in 1..Len(result) : result[k] # hint_message)

\* run_agent returned after a query whose input ended with the hint
C19_Witness ==
    /\ pc = "agent_return"
    /\ tools_used
    /\ queries >= 2
    /\ Len(temp_messages) >= 2
    /\ temp_messages[Len(temp_messages)] = hint_message
    /\ \A k \in 1..Len(result) : result[k] # hint_message

\* the step from the current state to the next is a model query whose
\* decoded reply has both a response and tool calls
BothReplyStep ==
    /\ queries' = queries + 1
    /\ last_step' \notin {"error_continue", "error_final"}
    /\ parsed_response'.response # <<>>
    /\ parsed_response'.tool_calls # <<>>

\* C20: a decoded reply with both a response and tool calls is handled as a
\* tool round: the calls are recorded and run, their results appended, the
\* loop stays out of FINALIZED in that step, and the response text is not
\* appended as a final answer.
C20_ToolCallsWin ==
    [][ BothReplyStep =>
          LET base == Len(messages)
              p == parsed_response'
              n == Len(p.tool_calls)
          IN /\ Len(messages') = base + n + 2
             /\ SubSeq(messages', 1, base) = messages
             /\ messages'[base + 1].type = "AIMessage"
             /\ messages'[base + 1].content = p.thought
             /\ Len(messages'[base + 1].tool_calls) = n
             /\ \A i \in 1..n :
                   /\ messages'[base + 1].tool_calls[i].function.name = p.tool_calls[i].name
                   /\ messages'[base + 1 + i].type = "ToolMessage"
                   /\ messages'[base + 1 + i] =
                         execute_tool_call(messages'[base + 1].tool_calls[i]).msg
             /\ messages'[base + n + 2].type = "SystemMessage"
             /\ \A k \in (base + 1)..Len(messages') :
                   /\ ~Contains(messages'[k].content, p.response)
                   /\ messages'[k].content # p.thought \o <<"\n\nFinal answer: ">> \o p.response
             /\ state' = "AWAITING_MODEL"
             /\ pc' = "loop"
             /\ last_step' = "tools"
             /\ tools_used'
             /\ step_count' = step_count + 1
      ]_vars

\* a tool round made from a reply that also had a response
C20_Witness ==
    /\ last_step = "tools"
    /\ parsed_response.response # <<>>
    /\ parsed_response.tool_calls # <<>>
    /\ messages[Len(messages)] = explicit_hint
    /\ state = "AWAITING_MODEL"

\* C21: while no tool round has occurred and step_count is below max_steps,
\* every pass through the loop queries the model, and a conversation in
\* which tools were never used does not end by the final-answer early exit.
C21_NoEarlyExitWithoutTools ==
    [][ /\ (AtStepStart /\ ~tools_used) => queries' = queries + 1
        /\ ~tools_used => last_step' # "early_exit"
      ]_vars

\* the ways run_agent comes to return: final answer, early exit, forced
\* final answer, canned answer after a failed query, step limit, and an
\* exception that left run_conversation
ReturnPaths ==
    \/ last_step \in {"final", "early_exit", "forced", "error_final", "escaped"}
    \/ state = "STEP_LIMIT_REACHED"

\* C22: whatever way run_agent comes to return, the last entry of the list
\* it returns is an AIMessage, and the answer of the endpoint is the content
\* of that entry and not the placeholder "No answer provided".
C22_AnswerIsLastEntry ==
    /\ (pc \in {"agent_return", "responded"}) =>
          /\ ReturnPaths
          /\ Len(result) >= 2
          /\ result[Len(result)].type = "AIMessage"
          /\ result[Len(result)].tool_calls = <<>>
    /\ (pc = "responded") =>
          /\ response.answer = result[Len(result)].content
          /\ response.answer # <<"No answer provided">>
          /\ response.messages[Len(response.messages)].content = response.answer

\* the endpoint answered after a run that ended at the step limit right
\* after a tool round
C22_Witness ==
    /\ pc = "responded"
    /\ state = "STEP_LIMIT_REACHED"
    /\ last_step = "tools"
    /\ result[Len(result) - 1] = explicit_hint
    /\ response.answer = StepLimitMessage.content

====
